---- MODULE Spec2Model ----
(***************************************************************************)
(* A model of the ai-validator pipeline: QueryClassifier, AccuracyChecker, *)
(* HallucinationDetector, ConfidenceScorer and the AIValidator             *)
(* orchestrator.                                                           *)
(*                                                                         *)
(* Conventions.                                                            *)
(*  - A JavaScript number is an exact rational [n, d] in lowest terms with *)
(*    d > 0 (Frac).  Math.round(x * 100) / 100 is Round2.                  *)
(*  - A JavaScript string is a TLA+ string; characters are read with       *)
(*    SubSeq(s, i, i).                                                     *)
(*  - The JavaScript value undefined (a missing property) is Undefined.    *)
(***************************************************************************)
EXTENDS Integers, Sequences, FiniteSets, TLC

VARIABLES
    pc,          \* position of the caller / of AIValidator.validate
    config,      \* AIValidator.config after the constructor's defaults
    input,       \* the ValidationInput of the validate call in progress
    acc,         \* AccuracyChecker.checkAccuracy promise of this call
    hall,        \* HallucinationDetector.detectHallucination promise
    ctx,         \* AIValidator.calculateContextRelevance promise
    scorer,      \* what ConfidenceScorer.calculateConfidence consumed/returned
    result,      \* the ValidationResult validate returned (or NoResult)
    classifier,  \* QueryClassifier: calls made and the patterns' lastIndex
    probe        \* a direct call of one component (pure-function checks)

vars == <<pc, config, input, acc, hall, ctx, scorer, result, classifier, probe>>

Undefined == "undefined"

-----------------------------------------------------------------------------
(* Numbers *)

Abs(i) == IF i < 0 THEN -i ELSE i

RECURSIVE GCD(_, _)
GCD(a, b) == IF b = 0 THEN a ELSE GCD(b, a % b)

\* The rational n/d (d # 0) in lowest terms with a positive denominator.
Frac(n, d) ==
    LET s == IF d < 0 THEN -1 ELSE 1
        g == GCD(Abs(n), Abs(d))
    IN  [n |-> (s * n) \div g, d |-> (s * d) \div g]

Zero == Frac(0, 1)
One == Frac(1, 1)

RAdd(x, y) == Frac(x.n * y.d + y.n * x.d, x.d * y.d)
RSub(x, y) == Frac(x.n * y.d - y.n * x.d, x.d * y.d)
RMul(x, y) == Frac(x.n * y.n, x.d * y.d)
RDivInt(x, k) == Frac(x.n, x.d * k)
RLt(x, y) == x.n * y.d < y.n * x.d
RLe(x, y) == x.n * y.d <= y.n * x.d
RGe(x, y) == RLe(y, x)
RGt(x, y) == RLt(y, x)
RMin(x, y) == IF RLe(x, y) THEN x ELSE y

\* Math.round(x * 100) / 100: Math.round rounds halves toward +infinity,
\* that is floor(100x + 1/2).
Round2(x) == Frac((200 * x.n + x.d) \div (2 * x.d), 100)

InUnit(x) == RLe(Zero, x) /\ RLe(x, One)

-----------------------------------------------------------------------------
(* Strings *)

CharAt(s, i) == SubSeq(s, i, i)

Lower == {"a", "b", "c", "d", "e", "f", "g", "h", "i", "j", "k", "l", "m",
          "n", "o", "p", "q", "r", "s", "t", "u", "v", "w", "x", "y", "z"}
Digit == {"0", "1", "2", "3", "4", "5", "6", "7", "8", "9"}
WhiteSpace == {" ", "\t", "\n"}

\* String.prototype.toLowerCase on one character.
LowerChar(c) ==
    CASE c = "A" -> "a" [] c = "B" -> "b" [] c = "C" -> "c" [] c = "D" -> "d"
      [] c = "E" -> "e" [] c = "F" -> "f" [] c = "G" -> "g" [] c = "H" -> "h"
      [] c = "I" -> "i" [] c = "J" -> "j" [] c = "K" -> "k" [] c = "L" -> "l"
      [] c = "M" -> "m" [] c = "N" -> "n" [] c = "O" -> "o" [] c = "P" -> "p"
      [] c = "Q" -> "q" [] c = "R" -> "r" [] c = "S" -> "s" [] c = "T" -> "t"
      [] c = "U" -> "u" [] c = "V" -> "v" [] c = "W" -> "w" [] c = "X" -> "x"
      [] c = "Y" -> "y" [] c = "Z" -> "z" [] OTHER -> c

RECURSIVE ToLowerCase(_)
ToLowerCase(s) ==
    IF Len(s) = 0 THEN ""
    ELSE LowerChar(CharAt(s, 1)) \o ToLowerCase(SubSeq(s, 2, Len(s)))

RECURSIVE TrimStart(_)
TrimStart(s) ==
    IF Len(s) > 0 /\ CharAt(s, 1) \in WhiteSpace
    THEN TrimStart(SubSeq(s, 2, Len(s))) ELSE s

RECURSIVE TrimEnd(_)
TrimEnd(s) ==
    IF Len(s) > 0 /\ CharAt(s, Len(s)) \in WhiteSpace
    THEN TrimEnd(SubSeq(s, 1, Len(s) - 1)) ELSE s

\* String.prototype.trim
Trim(s) == TrimEnd(TrimStart(s))

\* String.prototype.startsWith, from position from + 1
StartsWithAt(s, p, from) ==
    /\ Len(s) >= from + Len(p)
    /\ SubSeq(s, from + 1, from + Len(p)) = p

StartsWith(s, p) == StartsWithAt(s, p, 0)

\* String.prototype.includes
Includes(s, p) == \E i \in 0..Len(s) : StartsWithAt(s, p, i)

\* \w of a regular expression without the i flag's case folding: the text
\* it is applied to has been lowercased, capitals are kept for completeness.
IsWordChar(c) == c \in Lower \cup Digit \cup {"_"} \/ LowerChar(c) # c

\* s.replace(/[^\w\s]/g, '')
RECURSIVE StripPunctuation(_)
StripPunctuation(s) ==
    IF Len(s) = 0 THEN ""
    ELSE LET c == CharAt(s, 1)
             rest == StripPunctuation(SubSeq(s, 2, Len(s)))
         IN  IF IsWordChar(c) \/ c \in WhiteSpace THEN c \o rest ELSE rest

\* s.split(/\s+/): the pieces between maximal runs of white space; a
\* leading or trailing run gives an empty first or last piece.
RECURSIVE SplitFrom(_, _, _)
SplitFrom(s, i, cur) ==
    IF i > Len(s) THEN <<cur>>
    ELSE IF CharAt(s, i) \in WhiteSpace
         THEN IF i > 1 /\ CharAt(s, i - 1) \in WhiteSpace
              THEN SplitFrom(s, i + 1, cur)
              ELSE <<cur>> \o SplitFrom(s, i + 1, "")
         ELSE SplitFrom(s, i + 1, cur \o CharAt(s, i))

SplitWhitespace(s) == SplitFrom(s, 1, "")

\* Array.prototype.filter(word => word.length > n)
LongerThan(ws, n) == SelectSeq(ws, LAMBDA w : Len(w) > n)

\* Array.prototype.includes
ArrayIncludes(ws, w) == \E i \in 1..Len(ws) : ws[i] = w

\* Array.prototype.join(' ')
RECURSIVE JoinSpace(_)
JoinSpace(ws) ==
    IF Len(ws) = 0 THEN ""
    ELSE IF Len(ws) = 1 THEN ws[1]
    ELSE ws[1] \o " " \o JoinSpace(Tail(ws))

-----------------------------------------------------------------------------
(* QueryClassifier *)

\* QueryClassifier.patterns, in the insertion order Object.entries walks.
\* Every pattern carries the i flag only: neither g nor y.
PatternOrder == <<"greeting", "typo", "small_talk", "clarification", "meta">>

Patterns ==
    [greeting |->
        [anchored |-> TRUE, global |-> FALSE,
         alts |-> <<"hi", "hello", "hey", "good morning", "good afternoon",
                    "good evening", "greetings", "sup", "what's up">>],
     typo |->
        [anchored |-> FALSE, global |-> FALSE,
         alts |-> <<"helo", "whta", "thnak", "recieve", "seperate", "occured",
                    "definately", "accomodate", "begining", "neccessary">>],
     small_talk |->
        [anchored |-> TRUE, global |-> FALSE,
         alts |-> <<"how are you", "what's up", "nice weather",
                    "how's it going", "how's your day">>],
     clarification |->
        [anchored |-> TRUE, global |-> FALSE,
         alts |-> <<"what do you mean", "can you repeat", "can you explain",
                    "i don't understand", "what does that mean">>],
     meta |->
        [anchored |-> TRUE, global |-> FALSE,
         alts |-> <<"what can you help with", "what's your name",
                    "who are you", "what are you", "what do you do">>]]

\* The end index of the match of an alternation at position i of s (the
\* first alternative, in order, that matches there), or -1.
RECURSIVE AltEndAt(_, _, _, _)
AltEndAt(alts, k, s, i) ==
    IF k > Len(alts) THEN -1
    ELSE IF StartsWithAt(s, alts[k], i) THEN i + Len(alts[k])
    ELSE AltEndAt(alts, k + 1, s, i)

\* The end index of the leftmost match starting at or after position i.
RECURSIVE SearchFrom(_, _, _)
SearchFrom(p, s, i) ==
    IF i > Len(s) THEN -1
    ELSE LET e == AltEndAt(p.alts, 1, s, i)
         IN  IF e >= 0 THEN e
             ELSE IF p.anchored THEN -1
             ELSE SearchFrom(p, s, i + 1)

\* RegExp.prototype.test(s) on a pattern whose lastIndex is li: the outcome
\* and the new lastIndex.  Without the g flag lastIndex is neither read nor
\* written.
RegexTest(p, li, s) ==
    LET start == IF p.global THEN li ELSE 0
        e == IF p.anchored /\ start > 0 THEN -1 ELSE SearchFrom(p, s, start)
    IN  [matched |-> e >= 0,
         lastIndex |-> IF p.global THEN (IF e >= 0 THEN e ELSE 0) ELSE li]

\* ['greeting', 'typo', 'small_talk', 'meta'].includes(type)
SkipTypesMutant == {"greeting", "typo", "small_talk", "clarification", "meta"}
SkipTypes == {"greeting", "typo", "small_talk", "meta"}

\* The for loop of classifyQuery from the k-th pattern on: the first type
\* whose pattern matches ("none" when the loop falls through), and the
\* lastIndex of every pattern afterwards.
RECURSIVE PatternLoop(_, _, _)
PatternLoop(k, li, s) ==
    IF k > Len(PatternOrder) THEN [type |-> "none", lastIndex |-> li]
    ELSE LET t == PatternOrder[k]
             r == RegexTest(Patterns[t], li[t], s)
             li2 == [li EXCEPT ![t] = r.lastIndex]
         IN  IF r.matched THEN [type |-> t, lastIndex |-> li2]
             ELSE PatternLoop(k + 1, li2, s)

Interrogatives == <<"how", "what", "when", "where", "why", "who", "which">>

\* QueryClassifier.classifyQuery: the QueryClassificationResult and the
\* patterns' lastIndex afterwards.
classifyQuery(query, li) ==
    LET trimmedQuery == ToLowerCase(Trim(query))
        loop == PatternLoop(1, li, trimmedQuery)
        res ==
            IF loop.type # "none"
            THEN [type |-> loop.type, confidence |-> Frac(9, 10),
                  skip_validation |-> loop.type \in SkipTypes]
            ELSE IF Len(trimmedQuery) <= 10
            THEN [type |-> "greeting", confidence |-> Frac(7, 10),
                  skip_validation |-> TRUE]
            ELSE IF \/ Includes(trimmedQuery, "?")
                    \/ \E i \in 1..Len(Interrogatives) :
                          StartsWith(trimmedQuery, Interrogatives[i])
            THEN [type |-> "question", confidence |-> Frac(8, 10),
                  skip_validation |-> FALSE]
            ELSE [type |-> "question", confidence |-> Frac(6, 10),
                  skip_validation |-> FALSE]
    IN  [result |-> res, lastIndex |-> loop.lastIndex]

\* The lastIndex of the five freshly built patterns.
InitLastIndex ==
    [greeting |-> 0, typo |-> 0, small_talk |-> 0, clarification |-> 0, meta |-> 0]

-----------------------------------------------------------------------------
(* The judge capability (the OpenAI and Anthropic clients) *)

\* A Source is [content, padding, title]: its content is the string
\* `content` followed by `padding` full stops, characters that only
\* content.length sees (the estimator strips them, nothing else reads
\* them).  content = Undefined is a source without a content property.

\* What one judge invocation produces.  It either rejects with an Error
\* carrying `message`, or resolves with a message whose text is absent
\* (content null, or a first block that is not text) or is `raw`: the body
\* of the text, and whether it is wrapped in a ```json fence.
JudgeThrows(m) == [outcome |-> "throws", message |-> m]
JudgeNoText == [outcome |-> "no_text"]
JudgeText(fenced, body, fields) ==
    [outcome |-> "text",
     raw |-> [fenced |-> fenced, body |-> body, fields |-> fields]]

\* The JavaScript value null, and a slot of the model that holds no record.
Null == [null |-> TRUE]
Nothing == [nothing |-> TRUE]

\* The raw text '{}' both backends substitute for an absent text.
EmptyObjectText == [fenced |-> FALSE, body |-> "object", fields |-> <<>>]

\* JSON.parse: a SyntaxError for a fenced or malformed text, otherwise the
\* value the text denotes (an object with its fields, or null).
JSONParse(raw) ==
    IF raw.fenced \/ raw.body = "garbage"
    THEN [ok |-> FALSE]
    ELSE [ok |-> TRUE,
          value |-> IF raw.body = "null" THEN Null ELSE raw.fields]

\* content.replace(/```json\s*/g, '').replace(/```\s*/g, '').trim()
StripFences(raw) == [raw EXCEPT !.fenced = FALSE]

\* parseLLMResponse of either checker: parse as is, else parse with the
\* fences removed, else the empty object.
parseLLMResponse(raw) ==
    LET first == JSONParse(raw)
        second == JSONParse(StripFences(raw))
    IN  IF first.ok THEN first.value
        ELSE IF second.ok THEN second.value
        ELSE <<>>

\* Reading a property of null is a TypeError, which the callers test with
\* IsNull first; a property an object lacks reads as undefined.
IsNull(v) == "null" \in DOMAIN v
Has(v, f) == f \in DOMAIN v

\* v.f || false for a boolean field, v.f || 0 for a numeric one (0 and
\* undefined are falsy), v.f || [] for an array, and v.f for a string.
BoolOrFalse(v, f) == IF Has(v, f) THEN v[f] ELSE FALSE
NumOrZero(v, f) == IF Has(v, f) THEN v[f] ELSE Zero
ArrayOrEmpty(v, f) == IF Has(v, f) THEN v[f] ELSE <<>>
StringProp(v, f) == IF Has(v, f) THEN v[f] ELSE Undefined

NullReadMessage(f) ==
    "Cannot read properties of null (reading '" \o f \o "')"

\* `LLM provider ${llmProvider} not available`
NotAvailableMessage(provider) == "LLM provider " \o provider \o " not available"

-----------------------------------------------------------------------------
(* AccuracyChecker *)

AccNoSources ==
    [verified |-> FALSE, verification_rate |-> Zero,
     reason |-> "no_sources_provided"]

\* The catch block of checkAccuracy.
AccFailedMutant(message) ==
    [verified |-> FALSE, verification_rate |-> Frac(1, 2),
     reason |-> "accuracy_check_failed: " \o message]
AccFailed(message) ==
    [verified |-> FALSE, verification_rate |-> Zero,
     reason |-> "accuracy_check_failed: " \o message]

\* checkAccuracyWithOpenAI / checkAccuracyWithClaude after the judge call
\* settles with `reply`, inside the try block of checkAccuracy.
accuracyFromReply(reply) ==
    IF reply.outcome = "throws" THEN AccFailed(reply.message)
    ELSE LET raw == IF reply.outcome = "no_text" THEN EmptyObjectText
                    ELSE reply.raw
             parsed == parseLLMResponse(raw)
         IN  IF IsNull(parsed) THEN AccFailed(NullReadMessage("verified"))
             ELSE [verified |-> BoolOrFalse(parsed, "verified"),
                   verification_rate |->
                       NumOrZero(parsed, "verification_rate"),
                   reason |-> StringProp(parsed, "reason")]

\* checkAccuracy up to its first suspension: a finished result, or the
\* judge invocation it is now waiting for.
checkAccuracyMutant(sources, llmProvider, model, hasOpenai, hasClaude) ==
    IF llmProvider = "openai" /\ hasOpenai
    THEN [st |-> "inflight", calls |-> 1, res |-> Nothing,
          call |-> [backend |-> "openai", model |-> model]]
    ELSE IF llmProvider = "claude" /\ hasClaude
    THEN [st |-> "inflight", calls |-> 1, res |-> Nothing,
          call |-> [backend |-> "claude", model |-> model]]
    ELSE [st |-> "done", calls |-> 0, call |-> Nothing,
          res |-> AccFailed(NotAvailableMessage(llmProvider))]
checkAccuracy(sources, llmProvider, model, hasOpenai, hasClaude) ==
    IF Len(sources) = 0
    THEN [st |-> "done", calls |-> 0, res |-> AccNoSources, call |-> Nothing]
    ELSE IF llmProvider = "openai" /\ hasOpenai
    THEN [st |-> "inflight", calls |-> 1, res |-> Nothing,
          call |-> [backend |-> "openai", model |-> model]]
    ELSE IF llmProvider = "claude" /\ hasClaude
    THEN [st |-> "inflight", calls |-> 1, res |-> Nothing,
          call |-> [backend |-> "claude", model |-> model]]
    ELSE [st |-> "done", calls |-> 0, call |-> Nothing,
          res |-> AccFailed(NotAvailableMessage(llmProvider))]

-----------------------------------------------------------------------------
(* HallucinationDetector *)

HallNoSources ==
    [detected |-> TRUE, risk |-> Frac(8, 10),
     hallucinated_parts |-> <<"entire_response">>]

\* The catch block of detectHallucination.
HallFailed ==
    [detected |-> TRUE, risk |-> Frac(9, 10),
     hallucinated_parts |-> <<"hallucination_check_failed">>]

\* detectHallucinationWithOpenAI / detectHallucinationWithClaude after the
\* judge call settles with `reply`, inside the try block.
hallucinationFromReply(reply) ==
    IF reply.outcome = "throws" THEN HallFailed
    ELSE LET raw == IF reply.outcome = "no_text" THEN EmptyObjectText
                    ELSE reply.raw
             parsed == parseLLMResponse(raw)
         IN  IF IsNull(parsed) THEN HallFailed
             ELSE [detected |-> BoolOrFalse(parsed, "detected"),
                   risk |-> NumOrZero(parsed, "risk"),
                   hallucinated_parts |->
                       ArrayOrEmpty(parsed, "hallucinated_parts")]

\* detectHallucination up to its first suspension.
detectHallucination(sources, llmProvider, model, hasOpenai, hasClaude) ==
    IF Len(sources) = 0
    THEN [st |-> "done", calls |-> 0, res |-> HallNoSources, call |-> Nothing]
    ELSE IF llmProvider = "openai" /\ hasOpenai
    THEN [st |-> "inflight", calls |-> 1, res |-> Nothing,
          call |-> [backend |-> "openai", model |-> model]]
    ELSE IF llmProvider = "claude" /\ hasClaude
    THEN [st |-> "inflight", calls |-> 1, res |-> Nothing,
          call |-> [backend |-> "claude", model |-> model]]
    ELSE [st |-> "done", calls |-> 0, call |-> Nothing, res |-> HallFailed]

-----------------------------------------------------------------------------
(* AIValidator.calculateContextRelevance *)

\* s.content.toLowerCase().replace(/[^\w\s]/g, '') of a source
CleanContent(s) == StripPunctuation(ToLowerCase(s.content))

\* sources.map(...).join(' ')
RECURSIVE JoinedSourceContent(_)
JoinedSourceContent(sources) ==
    IF Len(sources) = 0 THEN ""
    ELSE IF Len(sources) = 1 THEN CleanContent(sources[1])
    ELSE CleanContent(sources[1]) \o " " \o JoinedSourceContent(Tail(sources))

\* The number of words of ws that haystack includes (counted per occurrence).
CountIncluded(ws, haystack) ==
    Cardinality({i \in 1..Len(ws) : ArrayIncludes(haystack, ws[i])})

ResponseWords(response) ==
    LongerThan(SplitWhitespace(StripPunctuation(ToLowerCase(response))), 3)

SourceWords(sources) ==
    LongerThan(SplitWhitespace(JoinedSourceContent(sources)), 3)

QueryWords(query) ==
    LongerThan(SplitWhitespace(StripPunctuation(ToLowerCase(query))), 2)

\* The relevance of a response without a word of more than 3 characters.
NoWordsRelevanceMutant == Zero
NoWordsRelevance == Frac(1, 2)

\* valid: sourceRelevance > 0.3
RelevanceValid(sourceRelevance) == RGt(sourceRelevance, Frac(3, 10))

\* calculateContextRelevance: it has no await, so it settles at once: with
\* a ContextResult, or with the TypeError of reading toLowerCase off a
\* source without content.
calculateContextRelevance(query, response, sources) ==
    IF Len(sources) = 0
    THEN [st |-> "done",
          res |-> [source_relevance |-> Zero, source_usage_rate |-> Zero,
                   valid |-> FALSE]]
    ELSE IF \E i \in 1..Len(sources) : sources[i].content = Undefined
    THEN [st |-> "threw", res |-> Nothing,
          message |->
            "Cannot read properties of undefined (reading 'toLowerCase')"]
    ELSE
      LET responseWords == ResponseWords(response)
          sourceWords == SourceWords(sources)
          wordsInSource == CountIncluded(responseWords, sourceWords)
          sourceRelevance ==
              IF Len(responseWords) > 0
              THEN Frac(wordsInSource, Len(responseWords))
              ELSE NoWordsRelevance
          queryWords == QueryWords(query)
          queryWordsInResponse == CountIncluded(queryWords, responseWords)
          sourceUsageRate ==
              IF Len(queryWords) > 0
              THEN Frac(queryWordsInResponse, Len(queryWords))
              ELSE Frac(1, 2)
      IN  [st |-> "done",
           res |-> [source_relevance |-> RMin(sourceRelevance, One),
                    source_usage_rate |-> sourceUsageRate,
                    valid |-> RelevanceValid(sourceRelevance)]]

-----------------------------------------------------------------------------
(* ConfidenceScorer *)

\* source.content.length
ContentLength(s) == Len(s.content) + s.padding

\* The quality of one source in calculateSourceQuality.
SourceQualityOf(s) ==
    LET base == Frac(5, 10)
        q1 == IF ContentLength(s) > 100 THEN RAdd(base, Frac(2, 10)) ELSE base
        q2 == IF ContentLength(s) > 500 THEN RAdd(q1, Frac(2, 10)) ELSE q1
        q3 == IF s.title # Undefined /\ Len(s.title) > 0
              THEN RAdd(q2, Frac(1, 10)) ELSE q2
    IN  RMin(q3, One)

RECURSIVE TotalQuality(_)
TotalQuality(sources) ==
    IF Len(sources) = 0 THEN Zero
    ELSE RAdd(SourceQualityOf(sources[1]), TotalQuality(Tail(sources)))

calculateSourceQualityMutant(sources) ==
    IF Len(sources) = 0 THEN Frac(5, 10)
    ELSE RDivInt(TotalQuality(sources), Len(sources))
calculateSourceQuality(sources) ==
    IF Len(sources) = 0 THEN Zero
    ELSE RDivInt(TotalQuality(sources), Len(sources))

\* The level of a weighted sum.
LevelOf(confidenceScore) ==
    IF RGe(confidenceScore, Frac(8, 10)) THEN "high"
    ELSE IF RGe(confidenceScore, Frac(5, 10)) THEN "medium"
    ELSE "low"

\* The weighted sum of calculateConfidence, before rounding.
WeightedSum(accuracyScore, contextScore, hallucinationScore, sourceQualityScore) ==
    RAdd(RAdd(RMul(accuracyScore, Frac(35, 100)),
              RMul(contextScore, Frac(25, 100))),
         RAdd(RMul(hallucinationScore, Frac(30, 100)),
              RMul(sourceQualityScore, Frac(10, 100))))

calculateConfidence(accuracyResult, contextResult, hallucinationResult, sources) ==
    LET accuracyScore == accuracyResult.verification_rate
        contextScore == contextResult.source_relevance
        hallucinationScore == RSub(One, hallucinationResult.risk)
        sourceQualityScore == calculateSourceQuality(sources)
        confidenceScore ==
            WeightedSum(accuracyScore, contextScore, hallucinationScore,
                        sourceQualityScore)
    IN  [confidence_score |-> Round2(confidenceScore),
         level |-> LevelOf(confidenceScore),
         breakdown |->
            [accuracy_score |-> Round2(accuracyScore),
             context_score |-> Round2(contextScore),
             hallucination_score |-> Round2(hallucinationScore),
             source_quality |-> Round2(sourceQualityScore)]]

-----------------------------------------------------------------------------
(* AIValidator *)

\* The defaults the constructor sets before spreading the caller's config.
ConfigDefaults ==
    [confidenceThreshold |-> Frac(7, 10),
     enableQueryClassification |-> TRUE,
     enableAccuracyCheck |-> TRUE,
     enableHallucinationDetection |-> TRUE,
     openaiModel |-> "gpt-4o",
     claudeModel |-> "claude-sonnet-4-5-20250929"]

\* { ...defaults, ...options }: a property the caller gives wins.
Spread(defaults, options) ==
    [k \in DOMAIN defaults \cup DOMAIN options |->
        IF k \in DOMAIN options THEN options[k] ELSE defaults[k]]

\* An API key is a non-empty string or is not given; llmProvider is typed
\* 'openai' | 'claude' and has no default, so a config may lack it.
HasOpenaiKey(cfg) == Has(cfg, "openaiApiKey")
HasClaudeKey(cfg) == Has(cfg, "claudeApiKey")
ProviderOf(cfg) == IF Has(cfg, "llmProvider") THEN cfg.llmProvider ELSE Undefined

\* validateConfig: the message of the Error it throws, or "" when it returns.
validateConfigMutant(cfg) ==
    IF ~HasOpenaiKey(cfg) /\ ~HasClaudeKey(cfg)
    THEN "At least one API key (OpenAI or Claude) must be provided"
    ELSE IF ProviderOf(cfg) = "openai" /\ ~HasOpenaiKey(cfg)
    THEN "OpenAI API key is required when using OpenAI provider"
    ELSE ""
validateConfig(cfg) ==
    IF ~HasOpenaiKey(cfg) /\ ~HasClaudeKey(cfg)
    THEN "At least one API key (OpenAI or Claude) must be provided"
    ELSE IF ProviderOf(cfg) = "openai" /\ ~HasOpenaiKey(cfg)
    THEN "OpenAI API key is required when using OpenAI provider"
    ELSE IF ProviderOf(cfg) = "claude" /\ ~HasClaudeKey(cfg)
    THEN "Claude API key is required when using Claude provider"
    ELSE ""

getModel(cfg) ==
    IF ProviderOf(cfg) = "openai" THEN cfg.openaiModel ELSE cfg.claudeModel

\* this.config.confidenceThreshold || 0.7
EffectiveThreshold(cfg) ==
    IF cfg.confidenceThreshold = Zero THEN Frac(7, 10)
    ELSE cfg.confidenceThreshold

WarnNoSources == "No sources provided - high hallucination risk"
WarnLowAccuracy == "Low accuracy verification rate"
WarnLowContext == "Low context relevance"
WarnHighRisk == "High hallucination risk detected"
WarnDetected == "Hallucination detected in response"

generateWarningsMutant(accuracyResult, contextResult, hallucinationResult, sources) ==
    (IF Len(sources) = 0 THEN <<WarnNoSources>> ELSE <<>>)
    \o (IF RLt(accuracyResult.verification_rate, Frac(5, 10))
        THEN <<WarnLowAccuracy>> ELSE <<>>)
    \o (IF RLt(contextResult.source_relevance, Frac(3, 10))
        THEN <<WarnLowContext>> ELSE <<>>)
    \o (IF RGt(hallucinationResult.risk, Frac(5, 10))
        THEN <<WarnHighRisk>>
        ELSE IF hallucinationResult.detected THEN <<WarnDetected>> ELSE <<>>)
generateWarnings(accuracyResult, contextResult, hallucinationResult, sources) ==
    (IF Len(sources) = 0 THEN <<WarnNoSources>> ELSE <<>>)
    \o (IF RLt(accuracyResult.verification_rate, Frac(5, 10))
        THEN <<WarnLowAccuracy>> ELSE <<>>)
    \o (IF RLt(contextResult.source_relevance, Frac(3, 10))
        THEN <<WarnLowContext>> ELSE <<>>)
    \o (IF RGt(hallucinationResult.risk, Frac(5, 10))
        THEN <<WarnHighRisk>> ELSE <<>>)
    \o (IF hallucinationResult.detected THEN <<WarnDetected>> ELSE <<>>)

\* The result validate returns when the classifier says skip.
SkippedResultMutant(type) ==
    [confidence |-> One, valid |-> TRUE,
     accuracy |-> [verified |-> TRUE, verification_rate |-> One],
     context |-> [source_relevance |-> One, source_usage_rate |-> One,
                  valid |-> TRUE],
     hallucination |-> [detected |-> FALSE, risk |-> Zero],
     warnings |-> <<>>, query_type |-> "greeting", skip_validation |-> TRUE]
SkippedResult(type) ==
    [confidence |-> One, valid |-> TRUE,
     accuracy |-> [verified |-> TRUE, verification_rate |-> One],
     context |-> [source_relevance |-> One, source_usage_rate |-> One,
                  valid |-> TRUE],
     hallucination |-> [detected |-> FALSE, risk |-> Zero],
     warnings |-> <<>>, query_type |-> type, skip_validation |-> TRUE]

\* The result of validate's catch block for an Error with this message.
FailedResultMutant(message) ==
    [confidence |-> Zero, valid |-> FALSE,
     accuracy |-> [verified |-> FALSE, verification_rate |-> Zero,
                   reason |-> "validation_error"],
     context |-> [source_relevance |-> Zero, source_usage_rate |-> Zero,
                  valid |-> FALSE],
     hallucination |-> [detected |-> TRUE, risk |-> Frac(9, 10)],
     warnings |-> <<"Validation failed: " \o message>>]
FailedResult(message) ==
    [confidence |-> Zero, valid |-> FALSE,
     accuracy |-> [verified |-> FALSE, verification_rate |-> Zero,
                   reason |-> "validation_error"],
     context |-> [source_relevance |-> Zero, source_usage_rate |-> Zero,
                  valid |-> FALSE],
     hallucination |-> [detected |-> TRUE, risk |-> One],
     warnings |-> <<"Validation failed: " \o message>>]

\* Promise.resolve({ verified: true, verification_rate: 1.0 }) and
\* Promise.resolve({ detected: false, risk: 0 }): a disabled check.
AccStandInMutant == [verified |-> TRUE, verification_rate |-> Frac(1, 2)]
AccStandIn == [verified |-> TRUE, verification_rate |-> One]
HallStandIn == [detected |-> FALSE, risk |-> Zero]
Resolved(res) == [st |-> "done", calls |-> 0, res |-> res, call |-> Nothing]

\* A check that has not been issued.
NotIssued == [st |-> "idle", calls |-> 0, res |-> Nothing, call |-> Nothing]
NoScore == [runs |-> 0, consumed |-> Nothing, out |-> Nothing]

-----------------------------------------------------------------------------
(* Bounds and the inputs drawn within them *)

\* The longest sources list of a validate call.
MaxSources == 2
\* The judge's verification_rate and risk are the multiples of 1/RateDen
\* from -1/RateDen to 1 + 1/RateDen: values inside and outside [0, 1].
RateDen == 2

RateValues == {Frac(k, RateDen) : k \in (-1)..(RateDen + 1)}

SourceAt(i) ==
    IF i % 3 = 1
    THEN [content |-> "Paris is the capital of France.", padding |-> 0,
          title |-> "France"]
    ELSE IF i % 3 = 2
    THEN [content |-> "The Eiffel Tower stands in Paris.", padding |-> 500,
          title |-> Undefined]
    ELSE [content |-> "France borders Spain", padding |-> 100, title |-> ""]

NoContentSource == [content |-> Undefined, padding |-> 0, title |-> "broken"]

SourceLists ==
    {[i \in 1..k |-> SourceAt(i)] : k \in 0..MaxSources}
        \cup {<<NoContentSource>>}

Queries == {"hi", "thnak you", "What is the capital of France?"}
Responses == {"Paris is the capital of France.", "No, it is not."}

Inputs ==
    {[query |-> q, response |-> r, sources |-> ss] :
        q \in Queries, r \in Responses, ss \in SourceLists}

\* The options a caller may pass to the constructor.
Option(k, vs) == {<<>>} \cup {k :> v : v \in vs}
ConfigOptions ==
    {th @@ qc @@ ac @@ hd @@ pr @@ ok @@ ck :
        th \in Option("confidenceThreshold", {Zero, One}),
        qc \in Option("enableQueryClassification", {FALSE}),
        ac \in Option("enableAccuracyCheck", {FALSE}),
        hd \in Option("enableHallucinationDetection", {FALSE}),
        pr \in Option("llmProvider", {"openai", "claude"}),
        ok \in Option("openaiApiKey", {"sk-openai"}),
        ck \in Option("claudeApiKey", {"sk-claude"})}

AccVerdicts ==
    {[verified |-> RGe(r, Frac(1, 2)), verification_rate |-> r,
      reason |-> "judged"] : r \in RateValues}
        \cup {[verified |-> TRUE]}

HallVerdicts ==
    {[detected |-> d, risk |-> r, hallucinated_parts |-> <<>>] :
        d \in BOOLEAN, r \in RateValues}

\* The ways a judge invocation may settle.
JudgeFailures ==
    {JudgeThrows("request timed out"), JudgeNoText,
     JudgeText(FALSE, "garbage", <<>>), JudgeText(TRUE, "garbage", <<>>),
     JudgeText(FALSE, "null", <<>>)}

AccReplies ==
    JudgeFailures
        \cup {JudgeText(FALSE, "object", v) : v \in AccVerdicts}
        \cup {JudgeText(TRUE, "object",
                        [verified |-> TRUE, verification_rate |-> One,
                         reason |-> "judged"])}

HallReplies ==
    JudgeFailures
        \cup {JudgeText(FALSE, "object", v) : v \in HallVerdicts}
        \cup {JudgeText(TRUE, "object",
                        [detected |-> FALSE, risk |-> Zero,
                         hallucinated_parts |-> <<>>])}

-----------------------------------------------------------------------------
(* The orchestrator as a state machine *)

Init ==
    /\ pc = "new"
    /\ config = Nothing
    /\ input = Nothing
    /\ acc = NotIssued
    /\ hall = NotIssued
    /\ ctx = [st |-> "idle", res |-> Nothing]
    /\ scorer = NoScore
    /\ result = Nothing
    /\ classifier = [calls |-> 0, lastIndex |-> InitLastIndex, last |-> Nothing]
    /\ probe = Nothing

\* new AIValidator(options): the constructor throws what validateConfig
\* throws, or builds the four components.
Construct(options) ==
    /\ pc = "new"
    /\ LET cfg == Spread(ConfigDefaults, options)
       IN  IF validateConfig(cfg) # ""
           THEN /\ pc' = "constructor_threw"
                /\ config' = [threw |-> validateConfig(cfg)]
           ELSE /\ pc' = "ready"
                /\ config' = cfg
    /\ UNCHANGED <<input, acc, hall, ctx, scorer, result, classifier, probe>>

\* validate(input), step 1: classification and the short circuit.
Validate(inp) ==
    /\ pc = "ready"
    /\ input' = inp
    /\ UNCHANGED <<acc, hall, ctx, scorer>>
    /\ IF config.enableQueryClassification
       THEN LET c == classifyQuery(inp.query, classifier.lastIndex)
            IN  /\ classifier' = [calls |-> 1, lastIndex |-> c.lastIndex,
                                  last |-> c.result]
                /\ IF c.result.skip_validation
                   THEN /\ result' = SkippedResult(c.result.type)
                        /\ pc' = "returned"
                   ELSE /\ result' = Nothing
                        /\ pc' = "step2"
       ELSE /\ classifier' = [classifier EXCEPT !.calls = 0, !.last = Nothing]
            /\ result' = Nothing
            /\ pc' = "step2"
    /\ UNCHANGED <<config, probe>>

\* validate, step 2: the three promises handed to Promise.all, each run up
\* to its first suspension, in the order of the array literal.
RunChecks ==
    /\ pc = "step2"
    /\ acc' = IF config.enableAccuracyCheck
              THEN checkAccuracy(input.sources, ProviderOf(config),
                                 getModel(config), HasOpenaiKey(config),
                                 HasClaudeKey(config))
              ELSE Resolved(AccStandIn)
    /\ ctx' = calculateContextRelevance(input.query, input.response,
                                        input.sources)
    /\ hall' = IF config.enableHallucinationDetection
               THEN detectHallucination(input.sources, ProviderOf(config),
                                        getModel(config), HasOpenaiKey(config),
                                        HasClaudeKey(config))
               ELSE Resolved(HallStandIn)
    /\ pc' = "awaiting"
    /\ UNCHANGED <<config, input, scorer, result, classifier, probe>>

\* The judge invocation of the accuracy check settles.
AccuracyJudgeSettles(reply) ==
    /\ acc.st = "inflight"
    /\ acc' = [acc EXCEPT !.st = "done", !.res = accuracyFromReply(reply)]
    /\ UNCHANGED <<pc, config, input, hall, ctx, scorer, result, classifier, probe>>

\* The judge invocation of the hallucination check settles.
HallucinationJudgeSettles(reply) ==
    /\ hall.st = "inflight"
    /\ hall' = [hall EXCEPT !.st = "done", !.res = hallucinationFromReply(reply)]
    /\ UNCHANGED <<pc, config, input, acc, ctx, scorer, result, classifier, probe>>

\* Promise.all fulfils, then steps 3 to 5 and the return.
AggregateMutant ==
    /\ pc = "awaiting"
    /\ acc.st = "done" /\ ctx.st = "done" /\ hall.st # "idle"
    /\ LET hallucinationResult ==
               IF hall.st = "done" THEN hall.res ELSE HallStandIn
           confidenceResult ==
               calculateConfidence(acc.res, ctx.res, hallucinationResult,
                                   input.sources)
           warnings == generateWarnings(acc.res, ctx.res, hallucinationResult,
                                        input.sources)
           valid == RGe(confidenceResult.confidence_score,
                        EffectiveThreshold(config))
       IN  /\ scorer' = [runs |-> scorer.runs + 1,
                         consumed |-> [accuracy |-> acc.res, context |-> ctx.res,
                                       hallucination |-> hallucinationResult,
                                       sources |-> input.sources],
                         out |-> confidenceResult]
           /\ result' = [confidence |-> confidenceResult.confidence_score,
                         valid |-> valid,
                         accuracy |-> acc.res,
                         context |-> ctx.res,
                         hallucination |-> hallucinationResult,
                         warnings |-> warnings]
    /\ pc' = "returned"
    /\ UNCHANGED <<config, input, acc, hall, ctx, classifier, probe>>
Aggregate ==
    /\ pc = "awaiting"
    /\ acc.st = "done" /\ ctx.st = "done" /\ hall.st = "done"
    /\ LET confidenceResult ==
               calculateConfidence(acc.res, ctx.res, hall.res, input.sources)
           warnings == generateWarnings(acc.res, ctx.res, hall.res, input.sources)
           valid == RGe(confidenceResult.confidence_score,
                        EffectiveThreshold(config))
       IN  /\ scorer' = [runs |-> scorer.runs + 1,
                         consumed |-> [accuracy |-> acc.res, context |-> ctx.res,
                                       hallucination |-> hall.res,
                                       sources |-> input.sources],
                         out |-> confidenceResult]
           /\ result' = [confidence |-> confidenceResult.confidence_score,
                         valid |-> valid,
                         accuracy |-> acc.res,
                         context |-> ctx.res,
                         hallucination |-> hall.res,
                         warnings |-> warnings]
    /\ pc' = "returned"
    /\ UNCHANGED <<config, input, acc, hall, ctx, classifier, probe>>

\* Promise.all rejects as soon as one promise has rejected, whatever the
\* others are doing; the catch block of validate returns.
CatchAll ==
    /\ pc = "awaiting"
    /\ ctx.st = "threw"
    /\ result' = FailedResult(ctx.message)
    /\ pc' = "returned"
    /\ UNCHANGED <<config, input, acc, hall, ctx, scorer, classifier, probe>>

\* The caller has its ValidationResult and every judge invocation of the
\* call has settled: nothing of the call is left (validate keeps no state
\* but the configuration and the classifier's patterns), and the
\* orchestrator takes the next call.
CallOver ==
    /\ pc = "returned"
    /\ acc.st # "inflight" /\ hall.st # "inflight"
    /\ pc' = "ready"
    /\ input' = Nothing
    /\ acc' = NotIssued
    /\ hall' = NotIssued
    /\ ctx' = [st |-> "idle", res |-> Nothing]
    /\ scorer' = NoScore
    /\ result' = Nothing
    /\ classifier' = [classifier EXCEPT !.calls = 0, !.last = Nothing]
    /\ UNCHANGED <<config, probe>>

Next ==
    \/ pc = "new" /\ \E options \in ConfigOptions : Construct(options)
    \/ pc = "ready" /\ \E inp \in Inputs : Validate(inp)
    \/ RunChecks
    \/ \E reply \in AccReplies : AccuracyJudgeSettles(reply)
    \/ \E reply \in HallReplies : HallucinationJudgeSettles(reply)
    \/ Aggregate
    \/ CatchAll
    \/ CallOver

Spec == Init /\ [][Next]_vars

-----------------------------------------------------------------------------
(* Direct calls of the pure components, on wider inputs *)

\* The longest query, in phrases, and the longest response, in words, of a
\* direct call.
MaxPhrases == 2
MaxResponseWords == 2
\* The scores handed to the scorer directly are the multiples of 1/ScoreDen.
ScoreDen == 21

RECURSIVE SeqsUpTo(_, _)
SeqsUpTo(S, n) ==
    IF n = 0 THEN {<<>>}
    ELSE LET shorter == SeqsUpTo(S, n - 1)
         IN  shorter \cup {Append(w, x) : w \in shorter, x \in S}

QueryPhrases ==
    {"hi", "Hello", "  hey", "what's up", "how are you", "nice weather",
     "Can you explain", "what do you mean", "who are you", "What do you do",
     "i will recieve", "definately", "history", "which", "tell me about",
     "rome?", "ok", "the great roman empire "}

ProbeQueries == {JoinSpace(w) : w \in SeqsUpTo(QueryPhrases, MaxPhrases)}

ResponseVocabulary ==
    {"Paris", "capital!", "is", "No,", "bananas", "border", "it", "eif-fel"}

ProbeResponses ==
    {JoinSpace(w) : w \in SeqsUpTo(ResponseVocabulary, MaxResponseWords)}

ScoreValues == {Frac(k, ScoreDen) : k \in 0..ScoreDen}

\* classifyQuery(query) on a QueryClassifier of its own.
ClassifyProbe(query) ==
    /\ pc = "new" /\ probe = Nothing
    /\ LET c == classifyQuery(query, classifier.lastIndex)
       IN  /\ probe' = [fn |-> "classifyQuery", query |-> query,
                        first |-> c.result, again |-> Nothing]
           /\ classifier' = [classifier EXCEPT !.lastIndex = c.lastIndex]
    /\ UNCHANGED <<pc, config, input, acc, hall, ctx, scorer, result>>

\* classifyQuery on the same classifier with the same query, once more.
ClassifyAgain ==
    /\ probe # Nothing /\ probe.fn = "classifyQuery" /\ probe.again = Nothing
    /\ LET c == classifyQuery(probe.query, classifier.lastIndex)
       IN  /\ probe' = [probe EXCEPT !.again = c.result]
           /\ classifier' = [classifier EXCEPT !.lastIndex = c.lastIndex]
    /\ UNCHANGED <<pc, config, input, acc, hall, ctx, scorer, result>>

NextClassifier ==
    \/ probe = Nothing /\ \E query \in ProbeQueries : ClassifyProbe(query)
    \/ ClassifyAgain

SpecClassifier == Init /\ [][NextClassifier]_vars

\* calculateContextRelevance(query, response, sources), called directly.
ContextProbe(query, response, sources) ==
    /\ pc = "new" /\ probe = Nothing
    /\ probe' = [fn |-> "calculateContextRelevance", query |-> query,
                 response |-> response, sources |-> sources,
                 out |-> calculateContextRelevance(query, response, sources)]
    /\ UNCHANGED <<pc, config, input, acc, hall, ctx, scorer, result, classifier>>

NextContext ==
    /\ probe = Nothing
    /\ \E query \in Queries, response \in ProbeResponses,
          sources \in SourceLists :
           ContextProbe(query, response, sources)

SpecContext == Init /\ [][NextContext]_vars

\* calculateConfidence called directly with results whose scores lie in
\* [0, 1].
ScorerProbe(rate, relevance, risk, sources) ==
    /\ pc = "new" /\ probe = Nothing
    /\ probe' =
        [fn |-> "calculateConfidence",
         rate |-> rate, relevance |-> relevance, risk |-> risk,
         sources |-> sources,
         out |-> calculateConfidence(
                    [verified |-> TRUE, verification_rate |-> rate],
                    [source_relevance |-> relevance,
                     source_usage_rate |-> relevance, valid |-> TRUE],
                    [detected |-> FALSE, risk |-> risk],
                    sources)]
    /\ UNCHANGED <<pc, config, input, acc, hall, ctx, scorer, result, classifier>>

NextScorer ==
    /\ probe = Nothing
    /\ \E rate \in ScoreValues, relevance \in ScoreValues, risk \in ScoreValues,
          k \in 0..MaxSources :
           ScorerProbe(rate, relevance, risk, [i \in 1..k |-> SourceAt(i)])

SpecScorer == Init /\ [][NextScorer]_vars

-----------------------------------------------------------------------------
(* Properties *)

Skipped == result # Nothing /\ Has(result, "skip_validation")
Scored == pc = "returned" /\ scorer.runs = 1

\* C1: when classification is enabled and the classifier says skip, validate
\* has returned at once the all-clear result (confidence 1, valid, accuracy
\* verified at rate 1, context all 1 and valid, no hallucination at risk 0,
\* no warnings, the query type, skip_validation) and, whatever the sources
\* and the response, no check was issued and no judge invoked in the call.
C1_SkipReturnsAtOnce ==
    (classifier.calls = 1 /\ classifier.last.skip_validation) =>
        /\ pc = "returned"
        /\ result =
            [confidence |-> One, valid |-> TRUE,
             accuracy |-> [verified |-> TRUE, verification_rate |-> One],
             context |-> [source_relevance |-> One, source_usage_rate |-> One,
                          valid |-> TRUE],
             hallucination |-> [detected |-> FALSE, risk |-> Zero],
             warnings |-> <<>>,
             query_type |-> classifier.last.type,
             skip_validation |-> TRUE]
        /\ acc.st = "idle" /\ acc.calls = 0
        /\ hall.st = "idle" /\ hall.calls = 0
        /\ ctx.st = "idle" /\ scorer.runs = 0

C1_Witness ==
    /\ pc = "returned" /\ Skipped
    /\ result.query_type = "typo"
    /\ Len(input.sources) = MaxSources

\* C2: with an empty sources list the accuracy check returns unverified,
\* rate 0, reason "no_sources_provided", the hallucination check returns
\* detected, risk 0.8, parts ["entire_response"], the context estimator
\* returns relevance 0, usage 0, invalid, and none of them invokes the
\* judge, whatever the response, the provider and the model.
C2_EmptySources ==
    (ctx.st # "idle" /\ Len(input.sources) = 0) =>
        /\ ctx.st = "done"
        /\ ctx.res = [source_relevance |-> Zero, source_usage_rate |-> Zero,
                      valid |-> FALSE]
        /\ acc.st = "done" /\ acc.calls = 0 /\ acc.call = Nothing
        /\ hall.st = "done" /\ hall.calls = 0 /\ hall.call = Nothing
        /\ config.enableAccuracyCheck =>
              acc.res = [verified |-> FALSE, verification_rate |-> Zero,
                         reason |-> "no_sources_provided"]
        /\ config.enableHallucinationDetection =>
              hall.res = [detected |-> TRUE, risk |-> Frac(8, 10),
                          hallucinated_parts |-> <<"entire_response">>]

C2_Witness ==
    /\ pc = "returned" /\ ~Skipped
    /\ Len(input.sources) = 0
    /\ config.enableAccuracyCheck /\ config.enableHallucinationDetection
    /\ ProviderOf(config) = "claude"
    /\ acc.res.reason = "no_sources_provided"

\* C3: validate throws nothing: while it awaits its three checks each of
\* them has settled or waits for its judge, so that the call either
\* aggregates or catches; what it returns is a ValidationResult, and when a step of the pipeline has failed the result
\* is the global pessimistic one, with exactly one warning, which carries
\* the failure's description.
C3_NeverRethrown ==
    /\ pc \in {"new", "constructor_threw", "ready", "step2", "awaiting",
               "returned"}
    /\ pc = "awaiting" =>
          /\ acc.st \in {"inflight", "done"}
          /\ hall.st \in {"inflight", "done"}
          /\ ctx.st \in {"done", "threw"}
    /\ pc = "returned" =>
          {"confidence", "valid", "accuracy", "context", "hallucination",
           "warnings"} \subseteq DOMAIN result
    /\ (pc = "returned" /\ ctx.st = "threw") =>
          /\ result.confidence = Zero
          /\ result.valid = FALSE
          /\ result.accuracy = [verified |-> FALSE, verification_rate |-> Zero,
                                reason |-> "validation_error"]
          /\ result.context = [source_relevance |-> Zero,
                               source_usage_rate |-> Zero, valid |-> FALSE]
          /\ result.hallucination = [detected |-> TRUE, risk |-> One]
          /\ Len(result.warnings) = 1
          /\ Includes(result.warnings[1], ctx.message)
          /\ DOMAIN result = {"confidence", "valid", "accuracy", "context",
                              "hallucination", "warnings"}

C3_Witness ==
    /\ pc = "returned" /\ ctx.st = "threw"
    /\ acc.st = "inflight" /\ hall.st = "done"

AccFailedWith(res, text) ==
    /\ Has(res, "reason")
    /\ StartsWith(res.reason, "accuracy_check_failed")
    /\ Includes(res.reason, text)

NoClientFor(cfg) ==
    /\ ~(ProviderOf(cfg) = "openai" /\ HasOpenaiKey(cfg))
    /\ ~(ProviderOf(cfg) = "claude" /\ HasClaudeKey(cfg))

\* C4: with sources, a check whose judge invocation throws, or whose
\* provider has no client, invokes the judge no further (at most one
\* invocation per check per call) and ends with its pessimistic result:
\* accuracy unverified, rate 0, a reason containing the failure's message;
\* hallucination detected, risk 0.9.  The other check and the context
\* result are left as they were, and the call goes on to score exactly
\* these results.
C4_JudgeFailureIsLocal ==
    /\ [](acc.calls <= 1 /\ hall.calls <= 1)
    /\ [][\A reply \in {r \in JudgeFailures : r.outcome = "throws"} :
            /\ AccuracyJudgeSettles(reply) =>
                  /\ acc'.st = "done" /\ acc'.calls = acc.calls
                  /\ acc'.res.verified = FALSE
                  /\ acc'.res.verification_rate = Zero
                  /\ AccFailedWith(acc'.res, reply.message)
                  /\ hall' = hall /\ ctx' = ctx /\ pc' = pc
            /\ HallucinationJudgeSettles(reply) =>
                  /\ hall'.st = "done" /\ hall'.calls = hall.calls
                  /\ hall'.res.detected = TRUE
                  /\ hall'.res.risk = Frac(9, 10)
                  /\ acc' = acc /\ ctx' = ctx /\ pc' = pc]_vars
    /\ [][(RunChecks /\ Len(input.sources) > 0 /\ NoClientFor(config)) =>
            /\ config.enableAccuracyCheck =>
                  /\ acc'.st = "done" /\ acc'.calls = 0
                  /\ acc'.res.verified = FALSE
                  /\ acc'.res.verification_rate = Zero
                  /\ AccFailedWith(acc'.res, "not available")
            /\ config.enableHallucinationDetection =>
                  /\ hall'.st = "done" /\ hall'.calls = 0
                  /\ hall'.res.detected = TRUE
                  /\ hall'.res.risk = Frac(9, 10)]_vars
    /\ []((pc = "returned" /\ ctx.st = "done") =>
              /\ scorer.runs = 1
              /\ result.accuracy = acc.res
              /\ result.context = ctx.res
              /\ result.hallucination = hall.res)

C4_Witness ==
    /\ Scored
    /\ acc.calls = 1 /\ AccFailedWith(acc.res, "request timed out")
    /\ hall.calls = 1 /\ hall.res.risk = Zero /\ ~hall.res.detected
    /\ ctx.res.valid

\* C5: every score is clamped to [0, 1]: whatever verification_rate and
\* risk the judge returns, the returned verification_rate, risk and
\* confidence and every component of the scorer's breakdown lie in [0, 1].
C5_ScoresClamped ==
    pc = "returned" =>
        /\ InUnit(result.accuracy.verification_rate)
        /\ InUnit(result.hallucination.risk)
        /\ InUnit(result.confidence)
        /\ scorer.runs = 1 =>
              /\ InUnit(scorer.out.confidence_score)
              /\ InUnit(scorer.out.breakdown.accuracy_score)
              /\ InUnit(scorer.out.breakdown.context_score)
              /\ InUnit(scorer.out.breakdown.hallucination_score)
              /\ InUnit(scorer.out.breakdown.source_quality)

\* C7: a call that was neither short-circuited nor failed is valid exactly
\* when its confidence is at least the configured threshold (0.7 when none
\* is configured).
C7_ValidIffAtLeastThreshold ==
    Scored => (result.valid <=> RGe(result.confidence, config.confidenceThreshold))

AllWarnings ==
    <<"No sources provided - high hallucination risk",
      "Low accuracy verification rate",
      "Low context relevance",
      "High hallucination risk detected",
      "Hallucination detected in response">>

\* C8: the warnings of a scored call are the applicable ones of the five,
\* once each and in the fixed order: no sources iff sources is empty, low
\* accuracy iff verification_rate < 0.5, low context iff source_relevance
\* < 0.3, high risk iff risk > 0.5, detected iff detected; each judged on
\* the very results the scorer was given, which are the ones returned.
C8_Warnings ==
    Scored =>
        LET c == scorer.consumed
            Applies(w) ==
                \/ w = AllWarnings[1] /\ c.sources = <<>>
                \/ w = AllWarnings[2]
                      /\ RLt(c.accuracy.verification_rate, Frac(1, 2))
                \/ w = AllWarnings[3]
                      /\ RLt(c.context.source_relevance, Frac(3, 10))
                \/ w = AllWarnings[4] /\ RGt(c.hallucination.risk, Frac(1, 2))
                \/ w = AllWarnings[5] /\ c.hallucination.detected
        IN  /\ result.warnings = SelectSeq(AllWarnings, Applies)
            /\ c.accuracy = result.accuracy
            /\ c.context = result.context
            /\ c.hallucination = result.hallucination
            /\ c.sources = input.sources

C8_Witness ==
    /\ Scored
    /\ result.warnings = <<"Low accuracy verification rate",
                           "High hallucination risk detected",
                           "Hallucination detected in response">>

\* C6: the level of a ConfidenceResult agrees with its confidence_score,
\* the weighted sum 0.35 rate + 0.25 relevance + 0.30 (1 - risk) + 0.10
\* quality rounded to 2 decimals: high iff the score is at least 0.80,
\* medium iff it is at least 0.50 and below 0.80, low otherwise, also for a
\* sum that rounds up to 0.80 or to 0.50.
C6_LevelAgreesWithScore ==
    (probe # Nothing /\ probe.fn = "calculateConfidence") =>
        LET score == probe.out.confidence_score
            sum == RAdd(RAdd(RMul(Frac(35, 100), probe.rate),
                             RMul(Frac(25, 100), probe.relevance)),
                        RAdd(RMul(Frac(30, 100), RSub(One, probe.risk)),
                             RMul(Frac(10, 100),
                                  calculateSourceQuality(probe.sources))))
        IN  /\ score = Round2(sum)
            /\ probe.out.level = "high" <=> RGe(score, Frac(80, 100))
            /\ probe.out.level = "medium" <=>
                  (RGe(score, Frac(50, 100)) /\ RLt(score, Frac(80, 100)))
            /\ probe.out.level = "low" <=> RLt(score, Frac(50, 100))

\* The first pattern category, in the order greeting, typo, small_talk,
\* clarification, meta, that matches q; "none" when none does.
FirstCategory(q) ==
    LET Matches(t) == SearchFrom(Patterns[t], q, 0) >= 0
    IN  IF Matches("greeting") THEN "greeting"
        ELSE IF Matches("typo") THEN "typo"
        ELSE IF Matches("small_talk") THEN "small_talk"
        ELSE IF Matches("clarification") THEN "clarification"
        ELSE IF Matches("meta") THEN "meta"
        ELSE "none"

\* C9: classifyQuery always returns, and its result is fixed by this
\* precedence on the trimmed, lowercased query: the first matching
\* category of greeting, typo, small_talk, clarification, meta, with
\* confidence 0.9; else greeting at 0.7 for a length of at most 10; else
\* question at 0.8 for a question mark or a leading interrogative; else
\* question at 0.6.  skip_validation holds iff the type is greeting, typo,
\* small_talk or meta, and classifying the query again gives the same.
C9_ClassifierPrecedence ==
    (probe # Nothing /\ probe.fn = "classifyQuery") =>
        LET q == ToLowerCase(Trim(probe.query))
            r == probe.first
            cat == FirstCategory(q)
            asks ==
                \/ Includes(q, "?")
                \/ \E w \in {"how", "what", "when", "where", "why", "who",
                             "which"} : StartsWith(q, w)
        IN  /\ cat # "none" => r.type = cat /\ r.confidence = Frac(9, 10)
            /\ (cat = "none" /\ Len(q) <= 10) =>
                  r.type = "greeting" /\ r.confidence = Frac(7, 10)
            /\ (cat = "none" /\ Len(q) > 10 /\ asks) =>
                  r.type = "question" /\ r.confidence = Frac(8, 10)
            /\ (cat = "none" /\ Len(q) > 10 /\ ~asks) =>
                  r.type = "question" /\ r.confidence = Frac(6, 10)
            /\ r.skip_validation <=>
                  r.type \in {"greeting", "typo", "small_talk", "meta"}
            /\ probe.again # Nothing => probe.again = r

C9_Witness ==
    /\ probe # Nothing /\ probe.fn = "classifyQuery"
    /\ probe.first.type = "typo"
    /\ SearchFrom(Patterns["clarification"], ToLowerCase(Trim(probe.query)), 0) >= 0
    /\ probe.again = probe.first

\* The words of a text: lowercased, punctuation removed, split at white
\* space.
NormalWords(text) ==
    SelectSeq(SplitWhitespace(StripPunctuation(ToLowerCase(text))),
              LAMBDA w : Len(w) > 0)

\* No word of the response occurs in the content of any of the sources.
Unrelated(response, sources) ==
    \A i \in 1..Len(sources) :
        \A j \in 1..Len(NormalWords(response)) :
            ~ArrayIncludes(NormalWords(sources[i].content),
                           NormalWords(response)[j])

ContextProbed ==
    /\ probe # Nothing /\ probe.fn = "calculateContextRelevance"
    /\ probe.out.st = "done"
    /\ Len(probe.sources) > 0

\* C10, as claimed: with a source supplied, a response none of whose words
\* occurs in a source's content gets source_relevance below 0.3 and
\* valid = false, whatever the response and the query.
C10_UnrelatedIsInvalid ==
    (ContextProbed /\ Unrelated(probe.response, probe.sources)) =>
        /\ RLt(probe.out.res.source_relevance, Frac(3, 10))
        /\ probe.out.res.valid = FALSE

HasLongWord(response) ==
    \E j \in 1..Len(NormalWords(response)) : Len(NormalWords(response)[j]) > 3

\* C10, amended: with a source supplied, a response none of whose words
\* occurs in a source's content gets source_relevance 0 and valid = false
\* if it has a word of more than 3 characters, and source_relevance 0.5 and
\* valid = true if it has none.
C10_UnrelatedLongWordsInvalid ==
    (ContextProbed /\ Unrelated(probe.response, probe.sources)) =>
        IF HasLongWord(probe.response)
        THEN /\ probe.out.res.source_relevance = Zero
             /\ probe.out.res.valid = FALSE
        ELSE /\ probe.out.res.source_relevance = Frac(1, 2)
             /\ probe.out.res.valid = TRUE

C10_Witness ==
    /\ ContextProbed /\ Unrelated(probe.response, probe.sources)
    /\ HasLongWord(probe.response)
    /\ Len(NormalWords(probe.response)) = MaxResponseWords
    /\ probe.out.res.valid = FALSE

\* C11: the constructor throws when no API key is given and when the key
\* of the selected provider is missing, and nothing else of the orchestrator
\* throws to its caller; so an orchestrator that takes validate calls has a
\* key, and a client in both checkers, for a selected provider openai or
\* claude: with sources, an enabled check of such an orchestrator invokes
\* the judge and never fails with "provider not available".
C11_ConstructorGuardsProvider ==
    /\ pc = "constructor_threw" =>
          /\ config.threw \in
                {"At least one API key (OpenAI or Claude) must be provided",
                 "OpenAI API key is required when using OpenAI provider",
                 "Claude API key is required when using Claude provider"}
          /\ input = Nothing /\ result = Nothing
    /\ pc \notin {"new", "constructor_threw"} =>
          /\ Has(config, "openaiApiKey") \/ Has(config, "claudeApiKey")
          /\ ProviderOf(config) = "openai" => Has(config, "openaiApiKey")
          /\ ProviderOf(config) = "claude" => Has(config, "claudeApiKey")
          /\ (ProviderOf(config) \in {"openai", "claude"}
                /\ ctx.st # "idle" /\ Len(input.sources) > 0) =>
                /\ config.enableAccuracyCheck =>
                      /\ acc.calls = 1
                      /\ acc.call.backend = ProviderOf(config)
                      /\ acc.st = "done" =>
                            ~AccFailedWith(acc.res, "not available")
                /\ config.enableHallucinationDetection =>
                      /\ hall.calls = 1
                      /\ hall.call.backend = ProviderOf(config)

C11_Witness ==
    /\ Scored
    /\ ProviderOf(config) = "claude" /\ ~Has(config, "openaiApiKey")
    /\ acc.calls = 1 /\ hall.calls = 1
    /\ acc.res.verified

\* C12: the three checks of a call are issued in one step, before validate
\* waits for any of them; however their completions interleave, the scorer
\* runs at most once, only when all three have completed, and exactly once
\* in a call that returns after they completed; the result returned then
\* carries the three results the scorer consumed, which are the results of
\* the three checks.
C12_NoPartialAggregation ==
    /\ (acc.st = "idle") = (ctx.st = "idle")
    /\ (hall.st = "idle") = (ctx.st = "idle")
    /\ pc = "step2" => ctx.st = "idle"
    /\ pc = "awaiting" => ctx.st # "idle" /\ scorer.runs = 0
    /\ scorer.runs <= 1
    /\ scorer.runs = 1 =>
          /\ pc = "returned"
          /\ acc.st = "done" /\ ctx.st = "done" /\ hall.st = "done"
          /\ scorer.consumed.accuracy = acc.res
          /\ scorer.consumed.context = ctx.res
          /\ scorer.consumed.hallucination = hall.res
          /\ result.accuracy = scorer.consumed.accuracy
          /\ result.context = scorer.consumed.context
          /\ result.hallucination = scorer.consumed.hallucination
          /\ result.confidence = scorer.out.confidence_score
    /\ (pc = "returned" /\ ~Skipped /\ ctx.st = "done") => scorer.runs = 1
    /\ (pc = "returned" /\ ~Skipped /\ ctx.st = "threw") =>
          scorer.runs = 0 /\ result.confidence = Zero

C12_Witness ==
    /\ Scored
    /\ acc.calls = 1 /\ hall.calls = 1
    /\ hall.res.detected /\ acc.res.verification_rate = One
    /\ Len(input.sources) = MaxSources

\* C13: a judge-backed check that gets no usable verdict (the invocation
\* throws, the reply has no text, or its text is no JSON object even
\* with the code fences removed) ends in distrust: accuracy unverified with
\* rate 0, hallucination detected with a risk above 0.5.
C13_FailSafe ==
    [][\A reply \in JudgeFailures :
          /\ AccuracyJudgeSettles(reply) =>
                /\ acc'.res.verified = FALSE
                /\ acc'.res.verification_rate = Zero
          /\ HallucinationJudgeSettles(reply) =>
                /\ hall'.res.detected = TRUE
                /\ RGt(hall'.res.risk, Frac(1, 2))]_vars

\* C14: a check disabled in the configuration invokes no judge and
\* resolves to its stand-in (accuracy verified at rate 1, hallucination not
\* detected at risk 0), which the scorer consumes and the result returns;
\* the context check runs in every call that is not short-circuited; and
\* with enableQueryClassification false the classifier is not called and
\* no call is short-circuited.
C14_DisabledChecks ==
    pc \notin {"new", "constructor_threw"} =>
        /\ (~config.enableAccuracyCheck /\ ctx.st # "idle") =>
              /\ acc.st = "done" /\ acc.calls = 0 /\ acc.call = Nothing
              /\ acc.res = [verified |-> TRUE, verification_rate |-> One]
              /\ scorer.runs = 1 =>
                    /\ scorer.consumed.accuracy = acc.res
                    /\ result.accuracy = acc.res
                    /\ ~ArrayIncludes(result.warnings,
                                      "Low accuracy verification rate")
        /\ (~config.enableHallucinationDetection /\ ctx.st # "idle") =>
              /\ hall.st = "done" /\ hall.calls = 0 /\ hall.call = Nothing
              /\ hall.res = [detected |-> FALSE, risk |-> Zero]
              /\ scorer.runs = 1 =>
                    /\ scorer.consumed.hallucination = hall.res
                    /\ result.hallucination = hall.res
                    /\ ~ArrayIncludes(result.warnings,
                                      "High hallucination risk detected")
                    /\ ~ArrayIncludes(result.warnings,
                                      "Hallucination detected in response")
        /\ (pc \in {"awaiting", "returned"} /\ ~Skipped) =>
              /\ ctx.st \in {"done", "threw"}
              /\ ctx.st = "done" =>
                    ctx.res = calculateContextRelevance(
                                  input.query, input.response, input.sources).res
        /\ ~config.enableQueryClassification =>
              /\ classifier.calls = 0
              /\ ~Skipped
              /\ pc = "returned" => ctx.st # "idle"

C14_Witness ==
    /\ Scored
    /\ ~config.enableAccuracyCheck /\ ~config.enableHallucinationDetection
    /\ ~config.enableQueryClassification
    /\ input.query = "hi"
    /\ Len(input.sources) = MaxSources
    /\ ProviderOf(config) = "openai"

\* C15: under the default threshold 0.7, a call that is not short-circuited
\* and has no sources returns valid = false, a confidence below 0.7 and
\* the no-sources warning first, whichever of the accuracy and
\* hallucination checks are enabled.
C15_NoSourcesNeverValid ==
    (pc = "returned" /\ ~Skipped /\ Len(input.sources) = 0
        /\ config.confidenceThreshold = Frac(7, 10)) =>
        /\ scorer.runs = 1
        /\ result.valid = FALSE
        /\ RLt(result.confidence, Frac(7, 10))
        /\ Len(result.warnings) >= 1
        /\ result.warnings[1] = "No sources provided - high hallucination risk"

C15_Witness ==
    /\ pc = "returned" /\ ~Skipped /\ Len(input.sources) = 0
    /\ config.confidenceThreshold = Frac(7, 10)
    /\ ~config.enableAccuracyCheck /\ ~config.enableHallucinationDetection
    /\ result.confidence = Frac(65, 100)
    /\ result.valid = FALSE

====
